---- MODULE Spec2Model ----
(***************************************************************************)
(* jsonrpcserver: the Dispatcher of jsonrpcserver/dispatcher.py and the    *)
(* Request construction of jsonrpcserver/request.py.                       *)
(*                                                                         *)
(* JSON values (and Python's None, which json maps to null) are pairs      *)
(* <<tag, payload>>.  A Python dict is the sequence of its <<key, value>>  *)
(* items in insertion order.                                               *)
(***************************************************************************)
EXTENDS Integers, Sequences, FiniteSets, TLC

\* ------------------------------------------------------------ JSON values
Null == <<"null", 0>>
Bool(b) == <<"bool", b>>
Num(n) == <<"num", n>>
Str(s) == <<"str", s>>
Arr(elems) == <<"arr", elems>>
Obj(items) == <<"obj", items>>
Tag(v) == v[1]
Val(v) == v[2]

\* Python truth value of a JSON value: None, False, 0, "" and empty
\* containers are false.
Truthy(v) ==
    CASE Tag(v) = "null" -> FALSE
      [] Tag(v) = "bool" -> Val(v)
      [] Tag(v) = "num" -> Val(v) # 0
      [] Tag(v) = "str" -> Val(v) # ""
      [] OTHER -> Val(v) # <<>>

\* ------------------------------------------------------------ dict items
Keys(d) == {d[i][1] : i \in DOMAIN d}
Has(d, k) == \E i \in DOMAIN d : d[i][1] = k
Get(d, k) == d[CHOOSE i \in DOMAIN d : d[i][1] = k][2]
\* d[k] = v: an existing key keeps its place, a new key goes last.
Put(d, k, v) ==
    IF Has(d, k)
    THEN [i \in DOMAIN d |-> IF d[i][1] = k THEN <<k, v>> ELSE d[i]]
    ELSE Append(d, <<k, v>>)
\* d.pop(k) for a key that is present: the remaining items.
Pop(d, k) == SelectSeq(d, LAMBDA it : it[1] # k)

\* ------------------------------------------------- json.dumps, json.loads
\* A text is a sequence of tokens <<kind, payload>>: punctuation "p", a
\* string "s", a number "n", one of the literals null/true/false "l".
P(c) == <<"p", c>>

RECURSIVE dumps(_)
RECURSIVE dumps_elems(_, _)
RECURSIVE dumps_items(_, _)
dumps(v) ==
    CASE Tag(v) = "null" -> << <<"l", "null">> >>
      [] Tag(v) = "bool" -> << <<"l", IF Val(v) THEN "true" ELSE "false">> >>
      [] Tag(v) = "num" -> << <<"n", Val(v)>> >>
      [] Tag(v) = "str" -> << <<"s", Val(v)>> >>
      [] Tag(v) = "arr" -> <<P("[")>> \o dumps_elems(Val(v), 1) \o <<P("]")>>
      [] Tag(v) = "obj" -> <<P("{")>> \o dumps_items(Val(v), 1) \o <<P("}")>>
dumps_elems(s, i) ==
    IF i > Len(s) THEN <<>>
    ELSE (IF i > 1 THEN <<P(",")>> ELSE <<>>) \o dumps(s[i]) \o dumps_elems(s, i + 1)
dumps_items(d, i) ==
    IF i > Len(d) THEN <<>>
    ELSE (IF i > 1 THEN <<P(",")>> ELSE <<>>)
         \o << <<"s", d[i][1]>>, P(":") >> \o dumps(d[i][2]) \o dumps_items(d, i + 1)

\* The decoder: each parse step answers <<ok, value, next position>>.
NoParse == <<FALSE, Null, 0>>
RECURSIVE parse_value(_, _)
RECURSIVE parse_elems(_, _, _)
RECURSIVE parse_items(_, _, _)
parse_value(t, i) ==
    IF i > Len(t) THEN NoParse
    ELSE CASE t[i][1] = "l" ->
                <<TRUE,
                  IF t[i][2] = "null" THEN Null ELSE Bool(t[i][2] = "true"),
                  i + 1>>
           [] t[i][1] = "n" -> <<TRUE, Num(t[i][2]), i + 1>>
           [] t[i][1] = "s" -> <<TRUE, Str(t[i][2]), i + 1>>
           [] t[i] = P("[") ->
                IF i + 1 <= Len(t) /\ t[i + 1] = P("]")
                THEN <<TRUE, Arr(<<>>), i + 2>>
                ELSE parse_elems(t, i + 1, <<>>)
           [] t[i] = P("{") ->
                IF i + 1 <= Len(t) /\ t[i + 1] = P("}")
                THEN <<TRUE, Obj(<<>>), i + 2>>
                ELSE parse_items(t, i + 1, <<>>)
           [] OTHER -> NoParse
parse_elems(t, i, acc) ==
    LET r == parse_value(t, i) IN
    IF ~r[1] \/ r[3] > Len(t) THEN NoParse
    ELSE IF t[r[3]] = P("]") THEN <<TRUE, Arr(Append(acc, r[2])), r[3] + 1>>
    ELSE IF t[r[3]] = P(",") THEN parse_elems(t, r[3] + 1, Append(acc, r[2]))
    ELSE NoParse
parse_items(t, i, acc) ==
    IF i + 1 > Len(t) \/ t[i][1] # "s" \/ t[i + 1] # P(":") THEN NoParse
    ELSE LET r == parse_value(t, i + 2) IN
         IF ~r[1] \/ r[3] > Len(t) THEN NoParse
         ELSE IF t[r[3]] = P("}")
              THEN <<TRUE, Obj(Put(acc, t[i][2], r[2])), r[3] + 1>>
         ELSE IF t[r[3]] = P(",")
              THEN parse_items(t, r[3] + 1, Put(acc, t[i][2], r[2]))
         ELSE NoParse

\* json.loads(text): <<TRUE, document>>, or <<FALSE, Null>> for the
\* ValueError of a text that is no JSON document.
loads(t) ==
    LET r == parse_value(t, 1) IN
    IF r[1] /\ r[3] = Len(t) + 1 THEN <<TRUE, r[2]>> ELSE <<FALSE, Null>>

\* ------------------------------------------------- the request documents
Absent == <<"absent", 0>>
\* A request object with the given members; an Absent member has no key.
MkRequest(jsonrpc, method, params, id) ==
    LET all == << <<"jsonrpc", jsonrpc>>, <<"method", method>>,
                  <<"params", params>>, <<"id", id>> >>
    IN  Obj(SelectSeq(all, LAMBDA it : it[2] # Absent))
\* request.get(key): None for a missing key.
DictGet(request, key) ==
    IF Has(Val(request), key) THEN Get(Val(request), key) ELSE Null

\* json_validator.validate(request) against request-schema.json: an object
\* with jsonrpc "2.0", a string method, params (if any) an array or an
\* object, id (if any) a string, a number or null.
SchemaValid(request) ==
    /\ Tag(request) = "obj"
    /\ Has(Val(request), "jsonrpc") /\ Get(Val(request), "jsonrpc") = Str("2.0")
    /\ Has(Val(request), "method") /\ Tag(Get(Val(request), "method")) = "str"
    /\ Has(Val(request), "params")
          => Tag(Get(Val(request), "params")) \in {"arr", "obj"}
    /\ Has(Val(request), "id")
          => Tag(Get(Val(request), "id")) \in {"str", "num", "null"}

\* ------------------------------------------------------ the error taxonomy
\* exceptions.py: each kind's JSON-RPC code, message and HTTP status.
Taxonomy ==
    [ParseError     |-> [code |-> -32700, message |-> "Parse error", http_status_code |-> 400],
     InvalidRequest |-> [code |-> -32600, message |-> "Invalid request", http_status_code |-> 400],
     MethodNotFound |-> [code |-> -32601, message |-> "Method not found", http_status_code |-> 404],
     InvalidParams  |-> [code |-> -32602, message |-> "Invalid params", http_status_code |-> 400],
     ServerError    |-> [code |-> -32000, message |-> "Server error", http_status_code |-> 500]]
JsonRpcServerError(kind, data) ==
    [kind |-> kind, data |-> data, request_id |-> Null]
\* str(e): the error document, serialized.  data is a member only when the
\* error carries one, id only when a request id was attached.
rpc_error_response(e) ==
    LET t == Taxonomy[e.kind]
        error == << <<"code", Num(t.code)>>, <<"message", Str(t.message)>> >>
                 \o (IF e.data = Absent THEN <<>> ELSE << <<"data", e.data>> >>)
    IN  Obj(<< <<"jsonrpc", Str("2.0")>>, <<"error", Obj(error)>> >>
            \o (IF e.request_id = Null THEN <<>> ELSE << <<"id", e.request_id>> >>))
ErrorStr(e) == dumps(rpc_error_response(e))
rpc_success_response(request_id, result) ==
    Obj(<< <<"jsonrpc", Str("2.0")>>, <<"result", result>>, <<"id", request_id>> >>)


\* --------------------------------------------------- the binder of _call
\* signature(func).bind(*args, **kwargs).  A signature is the sequence of
\* the function's parameters [name, kind, default]; default is Absent for a
\* parameter without one.  The answer holds the TypeError's text (or "")
\* and BoundArguments.arguments, the bound <<parameter, value>> items in
\* parameter order: a *args parameter holds an array, a **kwargs parameter
\* an object, and a parameter left to its default has no item.
Param(name, kind, default) == [name |-> name, kind |-> kind, default |-> default]
NoEntry == <<"", Null>>
SeqMin(S) == CHOOSE m \in S : \A k \in S : m <= k
\* The first parameter that takes no single positional argument.
Stop(sig) ==
    SeqMin({i \in 1..Len(sig) : sig[i].kind # "POSITIONAL_OR_KEYWORD"}
           \cup {Len(sig) + 1})
\* The parameters bound to the n positional arguments one by one.
Filled(sig, n) == {i \in 1..Len(sig) : i <= n /\ i < Stop(sig)}
\* The parameters left to the keyword arguments.
Named(sig, n) ==
    {i \in (1..Len(sig)) \ Filled(sig, n) :
        sig[i].kind \in {"POSITIONAL_OR_KEYWORD", "KEYWORD_ONLY"}}
\* The keyword arguments that no parameter of that name takes.
Leftover(sig, n, kwargs) ==
    SelectSeq(kwargs, LAMBDA it : it[1] \notin {sig[i].name : i \in Named(sig, n)})
BindError(sig, args, kwargs) ==
    IF Len(args) >= Stop(sig)
       /\ ~(Stop(sig) <= Len(sig) /\ sig[Stop(sig)].kind = "VAR_POSITIONAL")
    THEN "too many positional arguments"
    ELSE IF \E i \in Filled(sig, Len(args)) : Has(kwargs, sig[i].name)
    THEN "multiple values for argument"
    ELSE IF \E i \in Named(sig, Len(args)) :
                sig[i].default = Absent /\ ~Has(kwargs, sig[i].name)
    THEN "parameter lacking default value"
    ELSE IF Leftover(sig, Len(args), kwargs) # <<>>
            /\ \A i \in 1..Len(sig) : sig[i].kind # "VAR_KEYWORD"
    THEN "too many keyword arguments"
    ELSE ""
BindEntry(sig, args, kwargs, i) ==
    IF i \in Filled(sig, Len(args)) THEN <<sig[i].name, args[i]>>
    ELSE IF sig[i].kind = "VAR_POSITIONAL"
    THEN IF Len(args) >= i
         THEN <<sig[i].name, Arr(SubSeq(args, i, Len(args)))>>
         ELSE NoEntry
    ELSE IF sig[i].kind = "VAR_KEYWORD"
    THEN IF Leftover(sig, Len(args), kwargs) # <<>>
         THEN <<sig[i].name, Obj(Leftover(sig, Len(args), kwargs))>>
         ELSE NoEntry
    ELSE IF Has(kwargs, sig[i].name)
    THEN <<sig[i].name, Get(kwargs, sig[i].name)>>
    ELSE NoEntry
Bind(sig, args, kwargs) ==
    IF BindError(sig, args, kwargs) # ""
    THEN [error |-> BindError(sig, args, kwargs), arguments |-> <<>>]
    ELSE [error |-> "",
          arguments |-> SelectSeq([i \in 1..Len(sig) |-> BindEntry(sig, args, kwargs, i)],
                                  LAMBDA it : it # NoEntry)]

\* BoundArguments.args: the leading bound parameters, passed positionally.
RECURSIVE BoundArgs(_, _, _)
BoundArgs(sig, arguments, i) ==
    IF i > Len(sig) THEN <<>>
    ELSE IF sig[i].kind \in {"VAR_KEYWORD", "KEYWORD_ONLY"} THEN <<>>
    ELSE IF ~Has(arguments, sig[i].name) THEN <<>>
    ELSE IF sig[i].kind = "VAR_POSITIONAL"
         THEN Val(Get(arguments, sig[i].name)) \o BoundArgs(sig, arguments, i + 1)
    ELSE <<Get(arguments, sig[i].name)>> \o BoundArgs(sig, arguments, i + 1)
\* BoundArguments.kwargs: the bound parameters after the first one that is
\* keyword-only, **kwargs or unbound.
RECURSIVE BoundKwargs(_, _, _, _)
BoundKwargs(sig, arguments, i, started) ==
    IF i > Len(sig) THEN <<>>
    ELSE IF ~(started \/ sig[i].kind \in {"VAR_KEYWORD", "KEYWORD_ONLY"})
    THEN BoundKwargs(sig, arguments, i + 1, ~Has(arguments, sig[i].name))
    ELSE IF ~Has(arguments, sig[i].name)
    THEN BoundKwargs(sig, arguments, i + 1, TRUE)
    ELSE IF sig[i].kind = "VAR_KEYWORD"
    THEN Val(Get(arguments, sig[i].name)) \o BoundKwargs(sig, arguments, i + 1, TRUE)
    ELSE << <<sig[i].name, Get(arguments, sig[i].name)>> >>
         \o BoundKwargs(sig, arguments, i + 1, TRUE)

\* ------------------------------------------------ the registered callables
\* ping() of examples/socketio_server.py, and three more handlers of the
\* kind an application registers:
\*   subtract(a, b=0)        returns a - b (a TypeError inside it when an
\*                           operand is no number)
\*   echo(*args, **kwargs)   returns [args, kwargs]
\*   reject()                raises InvalidParams("rejected") itself
Signature(func) ==
    CASE func = "ping" -> <<>>
      [] func = "subtract" -> << Param("a", "POSITIONAL_OR_KEYWORD", Absent),
                                 Param("b", "POSITIONAL_OR_KEYWORD", Num(0)) >>
      [] func = "echo" -> << Param("args", "VAR_POSITIONAL", Absent),
                             Param("kwargs", "VAR_KEYWORD", Absent) >>
      [] func = "reject" -> <<>>
Funcs == {"ping", "subtract", "echo", "reject"}

NoError == [kind |-> "", data |-> Absent, request_id |-> Null]
\* What a piece of code ends with: it returns value, raises the
\* JsonRpcServerError error, or raises another exception.  calls is the log
\* of the handler invocations it made.
Return(value, calls) ==
    [flow |-> "return", value |-> value, error |-> NoError, exception |-> "",
     calls |-> calls]
Raise(error, calls) ==
    [flow |-> "JsonRpcServerError", value |-> Null, error |-> error,
     exception |-> "", calls |-> calls]
RaiseOther(exception, calls) ==
    [flow |-> "Exception", value |-> Null, error |-> NoError,
     exception |-> exception, calls |-> calls]

\* The value of parameter i in the body of a called function.
Arg(sig, arguments, i) ==
    IF Has(arguments, sig[i].name) THEN Get(arguments, sig[i].name)
    ELSE CASE sig[i].kind = "VAR_POSITIONAL" -> Arr(<<>>)
           [] sig[i].kind = "VAR_KEYWORD" -> Obj(<<>>)
           [] OTHER -> sig[i].default
\* The body of the handler func, run with the bound arguments.
Body(func, arguments, calls) ==
    CASE func = "ping" -> Return(Str("pong"), calls)
      [] func = "subtract" ->
           IF Tag(Arg(Signature(func), arguments, 1)) = "num"
              /\ Tag(Arg(Signature(func), arguments, 2)) = "num"
           THEN Return(Num(Val(Arg(Signature(func), arguments, 1))
                           - Val(Arg(Signature(func), arguments, 2))), calls)
           ELSE RaiseOther("TypeError", calls)
      [] func = "echo" ->
           Return(Arr(<<Arg(Signature(func), arguments, 1),
                        Arg(Signature(func), arguments, 2)>>), calls)
      [] func = "reject" ->
           Raise(JsonRpcServerError("InvalidParams", Str("rejected")), calls)
\* func(*args, **kwargs): Python binds the call to the parameters (a
\* TypeError when it cannot), then the body runs.
Enter(func, bound, calls) ==
    IF bound.error # "" THEN RaiseOther("TypeError", <<>>)
    ELSE Body(func, bound.arguments, calls)
Invoke(func, args, kwargs) ==
    Enter(func, Bind(Signature(func), args, kwargs),
          << [func |-> func, args |-> args, kwargs |-> kwargs] >>)

\* _call(func, *args, **kwargs)
CallBound(func, params) ==
    IF params.error # ""
    THEN Raise(JsonRpcServerError("InvalidParams", Str(params.error)), <<>>)
    ELSE Invoke(func, BoundArgs(Signature(func), params.arguments, 1),
                BoundKwargs(Signature(func), params.arguments, 1, FALSE))
_call(func, args, kwargs) == CallBound(func, Bind(Signature(func), args, kwargs))

\* _convert_params_to_args_and_kwargs(params): <<args, kwargs>>
_convert_params_to_args_and_kwargs(params) ==
    IF Tag(params) = "obj" THEN <<Null, params>>
    ELSE IF Tag(params) = "arr" THEN <<params, Null>>
    ELSE <<Null, Null>>

\* ------------------------------------------------------------- Dispatcher
\* The calls of _call in dispatch.  _call's own first parameter is named
\* func, so a keyword argument of that name cannot be passed through it:
\* Python raises TypeError ("got multiple values for argument 'func'") at
\* the call, before _call runs.
CallMethod(method, args, kwargs) ==
    IF Has(kwargs, "func") THEN RaiseOther("TypeError", <<>>)
    ELSE _call(method, args, kwargs)

\* The try block of dispatch ends (end: see Return, Raise) having reached
\* the (response, status) and taken the steps.
Leave(end, response, status, steps) ==
    [end |-> end, response |-> response, status |-> status, steps |-> steps]
\* Return a response: lines 142-150.
Respond(request_id, result, steps) ==
    IF result.flow # "return" THEN Leave(result, Null, 0, steps)
    ELSE IF request_id # Null
    THEN Leave(result, rpc_success_response(request_id, result.value), 200, steps)
    ELSE Leave(result, Null, 204, steps)
\* Call the method: lines 129-140.
CallWith(method, positional_args, keyword_args) ==
    IF ~Truthy(positional_args) /\ ~Truthy(keyword_args)
    THEN CallMethod(method, <<>>, <<>>)
    ELSE IF Truthy(positional_args) /\ ~Truthy(keyword_args)
    THEN CallMethod(method, Val(positional_args), <<>>)
    ELSE IF ~Truthy(positional_args) /\ Truthy(keyword_args)
    THEN CallMethod(method, <<>>, Val(keyword_args))
    ELSE Return(Null, <<>>)
\* A lookup whose KeyError is not turned into MethodNotFound.
LookUp_KeyError(rpc_methods, request, request_method, converted, steps) ==
    IF ~(Tag(request_method) = "str" /\ Val(request_method) \in DOMAIN rpc_methods)
    THEN Leave(RaiseOther("KeyError", <<>>), Null, 0, steps \cup {"lookup"})
    ELSE Respond(DictGet(request, "id"),
                 CallWith(rpc_methods[Val(request_method)], converted[1], converted[2]),
                 steps \cup {"lookup", "call"})
\* Get the method if available, call it, respond: lines 119-150.
LookUp(rpc_methods, request, request_method, converted, steps) ==
    \* self._rpc_methods[request_method]: an unhashable key is a TypeError
    IF Tag(request_method) \in {"arr", "obj"}
    THEN Leave(RaiseOther("TypeError", <<>>), Null, 0, steps \cup {"lookup"})
    ELSE IF ~(Tag(request_method) = "str"
              /\ Val(request_method) \in DOMAIN rpc_methods)
    THEN Leave(Raise(JsonRpcServerError("MethodNotFound", request_method), <<>>),
               Null, 0, steps \cup {"lookup"})
    ELSE Respond(DictGet(request, "id"),
                 CallWith(rpc_methods[Val(request_method)], converted[1], converted[2]),
                 steps \cup {"lookup", "call"})
\* The try block: lines 105-150.
DispatchTry(rpc_methods, validate_requests, request) ==
    IF validate_requests /\ ~SchemaValid(request)
    THEN Leave(Raise(JsonRpcServerError("InvalidRequest", Str("not valid")), <<>>),
               Null, 0, {"validate"})
    \* request['method'] of a document that is no dict, or has no such key
    ELSE IF Tag(request) # "obj"
    THEN Leave(RaiseOther("TypeError", <<>>), Null, 0,
               IF validate_requests THEN {"validate"} ELSE {})
    ELSE IF ~Has(Val(request), "method")
    THEN Leave(RaiseOther("KeyError", <<>>), Null, 0,
               IF validate_requests THEN {"validate"} ELSE {})
    ELSE LookUp(rpc_methods, request, Get(Val(request), "method"),
                _convert_params_to_args_and_kwargs(DictGet(request, "params")),
                IF validate_requests THEN {"validate"} ELSE {})

\* What a call of dispatch ends with: raised is "" and (response, status)
\* is returned, or raised names the exception that leaves dispatch.
Answer(raised, response, status, calls, steps) ==
    [raised |-> raised, response |-> response, status |-> status,
     calls |-> calls, steps |-> steps]
\* A dispatcher that never strips the data member.
StripData_Kept(debug, response, status, calls, steps) ==
    Answer("", response, status, calls, steps)
\* if not self.debug: response['error'].pop('data')
StripData(debug, response, status, calls, steps) ==
    IF debug THEN Answer("", response, status, calls, steps)
    ELSE IF ~Has(Val(Get(Val(response), "error")), "data")
    THEN Answer("KeyError", Null, 0, calls, steps)
    ELSE Answer("", Obj(Put(Val(response), "error",
                            Obj(Pop(Val(Get(Val(response), "error")), "data")))),
                status, calls, steps)
\* The except clauses of dispatch: lines 152-173.
Handle(debug, request, t) ==
    CASE t.end.flow = "return" ->
           Answer("", t.response, t.status, t.end.calls, t.steps)
      [] t.end.flow = "JsonRpcServerError" ->
           \* e.request_id = request.get('id')
           IF Tag(request) # "obj"
           THEN Answer("AttributeError", Null, 0, t.end.calls, t.steps)
           ELSE StripData(debug,
                          loads(ErrorStr([t.end.error EXCEPT
                                             !.request_id = DictGet(request, "id")]))[2],
                          Taxonomy[t.end.error.kind].http_status_code,
                          t.end.calls, t.steps)
      [] t.end.flow = "Exception" ->
           StripData(debug,
                     loads(ErrorStr(JsonRpcServerError(
                         "ServerError", Str("See server logs"))))[2],
                     500, t.end.calls, t.steps)
dispatch(rpc_methods, validate_requests, debug, request) ==
    Handle(debug, request, DispatchTry(rpc_methods, validate_requests, request))
\* A dispatch_str that hands a text it cannot parse on to dispatch, as null.
Parsed_NoShortCircuit(rpc_methods, validate_requests, debug, parsed) ==
    dispatch(rpc_methods, validate_requests, debug, parsed[2])
\* The body of dispatch_str, given json.loads's outcome: lines 180-184.
Parsed(rpc_methods, validate_requests, debug, parsed) ==
    IF ~parsed[1]
    THEN Answer("", loads(ErrorStr(JsonRpcServerError("ParseError", Absent)))[2],
                400, <<>>, {})
    ELSE dispatch(rpc_methods, validate_requests, debug, parsed[2])
dispatch_str(rpc_methods, validate_requests, debug, text) ==
    Parsed(rpc_methods, validate_requests, debug, loads(text))

\* ------------------------------------------------------------ request.py
\* The names request.py rewrites are sequences of characters.
UpperCase ==
    <<"A", "B", "C", "D", "E", "F", "G", "H", "I", "J", "K", "L", "M",
      "N", "O", "P", "Q", "R", "S", "T", "U", "V", "W", "X", "Y", "Z">>
LowerCase ==
    <<"a", "b", "c", "d", "e", "f", "g", "h", "i", "j", "k", "l", "m",
      "n", "o", "p", "q", "r", "s", "t", "u", "v", "w", "x", "y", "z">>
Digits == {"0", "1", "2", "3", "4", "5", "6", "7", "8", "9"}
IsUpper(c) == \E i \in DOMAIN UpperCase : UpperCase[i] = c
IsLower(c) == \E i \in DOMAIN LowerCase : LowerCase[i] = c
ToLower(c) ==
    IF IsUpper(c) THEN LowerCase[CHOOSE i \in DOMAIN UpperCase : UpperCase[i] = c]
    ELSE c

\* The end of the run [a-z]+ that starts at position j.
RECURSIVE LowerRun(_, _)
LowerRun(name, j) ==
    IF j + 1 <= Len(name) /\ IsLower(name[j + 1]) THEN LowerRun(name, j + 1) ELSE j
\* re.sub("(.)([A-Z][a-z]+)", r"\1_\2", name), from position i on
RECURSIVE SubWords(_, _)
SubWords(name, i) ==
    IF i > Len(name) THEN <<>>
    ELSE IF i + 2 <= Len(name) /\ IsUpper(name[i + 1]) /\ IsLower(name[i + 2])
    THEN <<name[i], "_">> \o SubSeq(name, i + 1, LowerRun(name, i + 2))
         \o SubWords(name, LowerRun(name, i + 2) + 1)
    ELSE <<name[i]>> \o SubWords(name, i + 1)
\* re.sub("([a-z0-9])([A-Z])", r"\1_\2", name), from position i on
RECURSIVE SubHumps(_, _)
SubHumps(name, i) ==
    IF i > Len(name) THEN <<>>
    ELSE IF i + 1 <= Len(name) /\ (IsLower(name[i]) \/ name[i] \in Digits)
            /\ IsUpper(name[i + 1])
    THEN <<name[i], "_", name[i + 1]>> \o SubHumps(name, i + 2)
    ELSE <<name[i]>> \o SubHumps(name, i + 1)
Lowered(name) == [i \in DOMAIN name |-> ToLower(name[i])]
convert_camel_case_string(name) == Lowered(SubHumps(SubWords(name, 1), 1))

\* convert_camel_case_keys(original_dict), from item i on, into new_dict
RECURSIVE ConvertItems(_, _, _)
ConvertItems(original_dict, i, new_dict) ==
    IF i > Len(original_dict) THEN new_dict
    ELSE ConvertItems(
             original_dict, i + 1,
             Put(new_dict, convert_camel_case_string(original_dict[i][1]),
                 IF Tag(original_dict[i][2]) = "obj"
                 THEN Obj(ConvertItems(Val(original_dict[i][2]), 1, <<>>))
                 ELSE original_dict[i][2]))
convert_camel_case_keys(original_dict) == ConvertItems(original_dict, 1, <<>>)

\* The two sentinels of request.py.
UNSPECIFIED == <<"UNSPECIFIED", 0>>
NOID == <<"NOID", 0>>
Context == <<"c", "o", "n", "t", "e", "x", "t">>

\* A get_arguments that takes None, not UNSPECIFIED, for "no context".
WithContext_NoneSentinel(positionals, nameds, context) ==
    IF context # Null THEN <<positionals, Put(nameds, Context, context)>>
    ELSE <<positionals, nameds>>
\* get_arguments(params, context): <<positionals, nameds>>.  The assertion
\* between the two steps cannot fail: params is a list or a dict, not both.
\* If context data was passed, include it as a keyword argument.
WithContext(positionals, nameds, context) ==
    IF context # UNSPECIFIED THEN <<positionals, Put(nameds, Context, context)>>
    ELSE <<positionals, nameds>>
get_arguments(params, context) ==
    IF Tag(params) = "arr" THEN WithContext(Val(params), <<>>, context)
    ELSE IF Tag(params) = "obj" THEN WithContext(<<>>, Val(params), context)
    ELSE WithContext(<<>>, <<>>, context)

\* Request.__init__(method, jsonrpc, params, id, convert_camel_case, context)
Converted(method, jsonrpc, arguments, id, convert_camel_case) ==
    [jsonrpc |-> jsonrpc,
     method |-> IF convert_camel_case THEN convert_camel_case_string(method)
                ELSE method,
     args |-> arguments[1],
     kwargs |-> IF convert_camel_case /\ arguments[2] # <<>>
                THEN convert_camel_case_keys(arguments[2])
                ELSE arguments[2],
     id |-> id]
NewRequest(method, jsonrpc, params, id, convert_camel_case, context) ==
    Converted(method, jsonrpc,
              IF Tag(params) \in {"arr", "obj"} THEN get_arguments(params, context)
              ELSE << <<>>, <<>> >>,
              id, convert_camel_case)
\* Request.is_notification
is_notification(self) == self.id = NOID

\* ------------------------------------------------------------- the bounds
\* The longest params array a request carries.
MaxArgs == 2
\* The most methods registered at once.
MaxMethods == 2

\* ------------------------------------------------------------- the inputs
Countdown(n) == [i \in 1..n |-> Num(n + 1 - i)]
ParamsSet ==
    {Absent, Null}
    \cup {Arr(Countdown(n)) : n \in 0..MaxArgs}
    \cup {Obj(<<>>),
          Obj(<< <<"a", Num(1)>> >>),
          Obj(<< <<"b", Num(1)>>, <<"a", Num(2)>> >>),
          Obj(<< <<"a", Str("x")>> >>),
          Obj(<< <<"func", Num(1)>> >>)}
IdSet == {Absent, Null, Num(0), Str("x")}
MethodSet == {Str(f) : f \in Funcs}
WellFormed ==
    {MkRequest(Str("2.0"), m, p, i) : m \in MethodSet, p \in ParamsSet, i \in IdSet}
\* Documents the schema rejects: a missing or wrong member, or no object.
Malformed ==
    {MkRequest(Absent, Str("ping"), Absent, Num(0)),
     MkRequest(Str("2.0"), Absent, Absent, Num(0)),
     MkRequest(Str("2.0"), Num(5), Absent, Num(0)),
     MkRequest(Str("2.0"), Arr(<<>>), Absent, Num(0)),
     MkRequest(Str("2.0"), Str("ping"), Num(5), Num(0)),
     MkRequest(Str("2.0"), Str("ping"), Absent, Bool(TRUE)),
     Arr(<<>>), Str("ping"), Num(5), Bool(TRUE), Null}
Requests == WellFormed \cup Malformed
\* The texts given to dispatch_str: some documents serialized, and texts
\* that are no JSON.
TextDocs ==
    {MkRequest(Str("2.0"), Str("ping"), Absent, Num(0)),
     MkRequest(Str("2.0"), Str("ping"), Absent, Absent),
     MkRequest(Str("2.0"), Str("subtract"), Arr(Countdown(MaxArgs)), Num(0)),
     MkRequest(Str("2.0"), Str("subtract"), Obj(<< <<"c", Num(1)>> >>), Num(0)),
     MkRequest(Absent, Str("ping"), Absent, Num(0)),
     Num(5)}
Truncated ==
    LET t == dumps(MkRequest(Str("2.0"), Str("ping"), Absent, Absent))
    IN  {SubSeq(t, 1, k) : k \in 0..(Len(t) - 1)}
Texts ==
    {dumps(d) : d \in TextDocs} \cup Truncated
    \cup { <<P("{"), <<"s", "not json">> >>, <<P("]")>>, <<P("{"), P("}"), P("}")>> }
\* register_method's name argument: None, or a name given explicitly.
NoName == ""
NameSet == {NoName, "ping"}

\* The arguments of Request(...).
Ping == <<"p", "i", "n", "g">>
GetId == <<"g", "e", "t", "I", "d">>
FooBar == <<"f", "o", "o", "B", "a", "r">>
RequestParams ==
    {UNSPECIFIED, Null, Num(5)}
    \cup {Arr(Countdown(n)) : n \in 0..MaxArgs}
    \cup {Obj(<<>>),
          Obj(<< <<FooBar, Num(1)>> >>),
          Obj(<< <<FooBar, Obj(<< <<GetId, Num(1)>> >>)>> >>),
          Obj(<< <<Context, Num(1)>> >>),
          Obj(<< <<Context, Num(1)>>, <<FooBar, Num(2)>> >>)}
RequestIds == {NOID, Null, Num(0)}
Contexts == {UNSPECIFIED, Null, Str("ctx"), Obj(<< <<GetId, Num(7)>> >>)}

\* -------------------------------------------------------------- the state
VARIABLES
    rpc_methods,        \* Dispatcher._rpc_methods: name -> registered callable
    validate_requests,  \* Dispatcher.validate_requests
    debug,              \* Dispatcher.debug
    entry,              \* the call being answered: "", "dispatch", "dispatch_str"
    request,            \* its argument: the document or the text
    answer,             \* what it ended with (see Answer)
    given,              \* the arguments of the Request being built
    built               \* the Request built from them
dvars == <<rpc_methods, validate_requests, debug, entry, request, answer>>
rvars == <<given, built>>
vars == <<dvars, rvars>>

NoAnswer == Answer("", Null, 0, <<>>, {})
NoRequest ==
    [jsonrpc |-> Null, method |-> <<>>, args |-> <<>>, kwargs |-> <<>>, id |-> NOID]
NoGiven ==
    [method |-> <<>>, jsonrpc |-> Null, params |-> UNSPECIFIED, id |-> NOID,
     convert_camel_case |-> FALSE, context |-> UNSPECIFIED]
\* Dispatcher.__init__(debug); no Request exists yet.
Init ==
    /\ rpc_methods = <<>>
    /\ validate_requests = TRUE
    /\ debug \in BOOLEAN
    /\ entry = ""
    /\ request = Null
    /\ answer = NoAnswer
    /\ given = NoGiven
    /\ built = NoRequest

\* A call runs to its end before the next operation starts: entry, request
\* and answer hold it until the caller has taken the answer.
Idle == entry = ""

\* register_method(func, name)
register_method(func, name) ==
    LET key == IF name = NoName THEN func ELSE name IN
    /\ Idle
    /\ key \in DOMAIN rpc_methods \/ Cardinality(DOMAIN rpc_methods) < MaxMethods
    /\ rpc_methods' = [k \in DOMAIN rpc_methods \cup {key} |->
                          IF k = key THEN func ELSE rpc_methods[k]]
    /\ UNCHANGED <<validate_requests, debug, entry, request, answer, rvars>>
RegisterMethod == \E func \in Funcs, name \in NameSet : register_method(func, name)
\* method(name) applied as a decorator to f
Method == \E f \in Funcs, name \in NameSet \ {NoName} : register_method(f, name)
\* dispatcher.validate_requests = b
SetValidateRequests ==
    /\ Idle
    /\ validate_requests' = ~validate_requests
    /\ UNCHANGED <<rpc_methods, debug, entry, request, answer, rvars>>
Dispatch ==
    \E r \in Requests :
        /\ Idle
        /\ entry' = "dispatch"
        /\ request' = r
        /\ answer' = dispatch(rpc_methods, validate_requests, debug, r)
        /\ UNCHANGED <<rpc_methods, validate_requests, debug, rvars>>
DispatchStr ==
    \E t \in Texts :
        /\ Idle
        /\ entry' = "dispatch_str"
        /\ request' = t
        /\ answer' = dispatch_str(rpc_methods, validate_requests, debug, t)
        /\ UNCHANGED <<rpc_methods, validate_requests, debug, rvars>>
\* The caller takes the answer (or the exception).
Take ==
    /\ ~Idle
    /\ entry' = "" /\ request' = Null /\ answer' = NoAnswer
    /\ UNCHANGED <<rpc_methods, validate_requests, debug, rvars>>

Next ==
    \/ RegisterMethod \/ Method \/ SetValidateRequests
    \/ Dispatch \/ DispatchStr \/ Take
Spec == Init /\ [][Next]_vars

\* ------------------------------------------------- building Request objects
\* Request(method, jsonrpc, params, id, convert_camel_case, context)
Construct ==
    \E method \in {Ping, GetId}, params \in RequestParams, id \in RequestIds,
       convert_camel_case \in BOOLEAN, context \in Contexts :
        /\ given = NoGiven
        /\ given' = [method |-> method, jsonrpc |-> Str("2.0"), params |-> params,
                     id |-> id, convert_camel_case |-> convert_camel_case,
                     context |-> context]
        /\ built' = NewRequest(method, Str("2.0"), params, id,
                               convert_camel_case, context)
        /\ UNCHANGED dvars
\* The Request is discarded once its call completes.
Discard ==
    /\ given # NoGiven
    /\ given' = NoGiven
    /\ built' = NoRequest
    /\ UNCHANGED dvars
InitRequest == Init /\ ~debug
NextRequest == Construct \/ Discard
SpecRequest == InitRequest /\ [][NextRequest]_vars
\* ------------------------------------------------------------- the claims
\* What the claims speak of, read off the request document d that dispatch
\* was given.
Dispatched == entry = "dispatch"
\* d got through validation (or validation is off) and names a method.
Accepted(d) ==
    /\ validate_requests => SchemaValid(d)
    /\ Tag(d) = "obj" /\ Has(Val(d), "method") /\ Tag(Get(Val(d), "method")) = "str"
Registered(d) == Accepted(d) /\ Val(Get(Val(d), "method")) \in DOMAIN rpc_methods
HandlerOf(d) == rpc_methods[Val(Get(Val(d), "method"))]
\* The arguments the params stand for: an array's elements positionally, an
\* object's entries by keyword, none for absent or null params.
SuppliedArgs(d) ==
    IF Tag(DictGet(d, "params")) = "arr" THEN Val(DictGet(d, "params")) ELSE <<>>
SuppliedKwargs(d) ==
    IF Tag(DictGet(d, "params")) = "obj" THEN Val(DictGet(d, "params")) ELSE <<>>
\* The binding of those arguments to the handler's parameters, and what the
\* handler does when called with them.
Binding(d) == Bind(Signature(HandlerOf(d)), SuppliedArgs(d), SuppliedKwargs(d))
HandlerRun(d) == Invoke(HandlerOf(d), SuppliedArgs(d), SuppliedKwargs(d))
\* The answer is the returned pair (response, status).
Returned == answer.raised = ""
IsError(code, status) ==
    /\ Returned /\ answer.status = status
    /\ Tag(answer.response) = "obj" /\ Has(Val(answer.response), "error")
    /\ Get(Val(Get(Val(answer.response), "error")), "code") = Num(code)
ErrorOf(response) == Val(Get(Val(response), "error"))
IsSuccess(result, id) ==
    /\ Returned /\ answer.status = 200
    /\ Tag(answer.response) = "obj"
    /\ Keys(Val(answer.response)) = {"jsonrpc", "result", "id"}
    /\ Get(Val(answer.response), "result") = result
    /\ Get(Val(answer.response), "id") = id

\* C1: a request with a present non-null id, a registered method, params
\* that bind to the handler's signature and a handler that returns R is
\* answered with the success document (result R, the request's id), 200.
C1_SuccessForReturningHandler ==
    (/\ Dispatched /\ Registered(request)
     /\ Has(Val(request), "id") /\ Get(Val(request), "id") # Null
     /\ Binding(request).error = "" /\ HandlerRun(request).flow = "return")
    => IsSuccess(HandlerRun(request).value, Get(Val(request), "id"))

\* C2: a request with no id key whose handler is found, binds and returns
\* is answered with (None, 204), whatever the handler returned.
C2_NotificationGetsNothing ==
    (/\ Dispatched /\ Registered(request) /\ ~Has(Val(request), "id")
     /\ Binding(request).error = "" /\ HandlerRun(request).flow = "return")
    => (Returned /\ answer.response = Null /\ answer.status = 204)

\* C3: with debug off no error document that dispatch or dispatch_str
\* returns has a data member in its error; with debug on the error document
\* is the serialized error as it is, its data included.
RaisedError ==
    LET d == IF Dispatched THEN request ELSE loads(request)[2]
        end == DispatchTry(rpc_methods, validate_requests, d).end
    IN  IF end.flow = "JsonRpcServerError"
        THEN [end.error EXCEPT !.request_id = DictGet(d, "id")]
        ELSE JsonRpcServerError("ServerError", Str("See server logs"))
IsErrorAnswer ==
    /\ entry # "" /\ Returned
    /\ Tag(answer.response) = "obj" /\ Has(Val(answer.response), "error")
C3_DataOnlyInDebug ==
    IsErrorAnswer =>
        IF debug
        THEN (entry = "dispatch_str" /\ ~loads(request)[1])
             \/ (/\ Has(ErrorOf(answer.response), "data")
                 /\ Get(ErrorOf(answer.response), "data") = RaisedError.data)
        ELSE ~Has(ErrorOf(answer.response), "data")
C3_Witness ==
    /\ IsErrorAnswer /\ ~debug /\ IsError(-32602, 400)
    /\ RaisedError.data = Str("too many positional arguments")

\* C4: a schema-valid request whose method is not registered is answered
\* with error -32601 and status 404, and no handler is invoked.
C4_UnknownMethod ==
    (Dispatched /\ SchemaValid(request) /\ ~Registered(request))
    => (IsError(-32601, 404) /\ answer.calls = <<>>)
C4_Witness ==
    /\ Dispatched /\ SchemaValid(request) /\ ~Registered(request)
    /\ DOMAIN rpc_methods # {}
    /\ Tag(DictGet(request, "params")) = "obj"
    /\ ~Has(Val(request), "id")

\* C5: the handler of a request to a registered method is invoked at most
\* once, and when the arguments the params stand for bind to its signature
\* it is invoked once, its parameters bound to exactly those arguments.
C5_HandlerGetsTheParams ==
    (Dispatched /\ Registered(request))
    => /\ Len(answer.calls) <= 1
       /\ Binding(request).error = ""
            => /\ Len(answer.calls) = 1
               /\ answer.calls[1].func = HandlerOf(request)
               /\ Bind(Signature(HandlerOf(request)), answer.calls[1].args,
                       answer.calls[1].kwargs) = Binding(request)
               /\ Tag(DictGet(request, "params")) = "arr"
                    => /\ answer.calls[1].args = SuppliedArgs(request)
                       /\ answer.calls[1].kwargs = <<>>

\* C6: the answer is InvalidParams (-32602, 400) with no handler invoked
\* exactly when the arguments cannot be bound to the handler's signature,
\* and a failure inside the invoked handler that is no taxonomy error is
\* answered with the server error (-32000, 500).
C6_InvalidParamsIffUnbound ==
    (Dispatched /\ Registered(request))
    => /\ Binding(request).error # ""
            <=> (IsError(-32602, 400) /\ answer.calls = <<>>)
       /\ (Binding(request).error = "" /\ HandlerRun(request).flow = "Exception")
            => IsError(-32000, 500)

\* C7: dispatch_str answers a text that is no JSON with the ParseError
\* document (-32700) and status 400 and takes no step of dispatch; it
\* answers any other text as dispatch answers the parsed document.
C7_ParseErrorShortCircuit ==
    entry = "dispatch_str" =>
        IF loads(request)[1]
        THEN answer = dispatch(rpc_methods, validate_requests, debug,
                               loads(request)[2])
        ELSE /\ IsError(-32700, 400)
             /\ answer.steps = {} /\ answer.calls = <<>>
C7_Witness ==
    /\ entry = "dispatch_str" /\ ~loads(request)[1] /\ Len(request) > 2
    /\ DOMAIN rpc_methods # {} /\ IsError(-32700, 400)

\* C8: a context given to Request(...) is in the built kwargs under the key
\* context, whatever the params are.
C8_ContextInKwargs ==
    (given # NoGiven /\ given.context # UNSPECIFIED)
    => (Has(built.kwargs, Context) /\ Get(built.kwargs, Context) = given.context)

\* C9 as stated: no built Request has both args and kwargs non-empty.
C9_NeverBoth ==
    given # NoGiven => ~(built.args # <<>> /\ built.kwargs # <<>>)
\* C9 as amended: a built Request with positional args has no kwargs but
\* the context given to it.
C9_OnlyContextBesideArgs ==
    (given # NoGiven /\ built.args # <<>>)
    => /\ Keys(built.kwargs) \subseteq {Context}
       /\ given.context = UNSPECIFIED => built.kwargs = <<>>
C9_Witness ==
    /\ given # NoGiven /\ Len(built.args) = MaxArgs
    /\ Keys(built.kwargs) = {Context} /\ given.convert_camel_case

\* C10: dispatch returns a pair whose status is one of 200, 204, 400, 404,
\* 500 for every document; no exception leaves it.
C10_DispatchIsTotal ==
    Dispatched => (Returned /\ answer.status \in {200, 204, 400, 404, 500})
====
